---- MODULE Spec2Model ----
(***************************************************************************)
(* fmutex: mutual exclusion on a file using flock(2).                      *)
(*                                                                         *)
(* The model has the threads of one process calling lock, try_lock and     *)
(* dropping the guards they got.  Every call opens its own file (one open  *)
(* file description per Guard); the kernel keeps, per file, the open file  *)
(* description that holds the exclusive flock.  Every system call is one   *)
(* step, so the calls of different threads interleave between the open,    *)
(* the flock and the close of one call.                                    *)
(***************************************************************************)
EXTENDS Integers, FiniteSets, Sequences, TLC

\* ---------------------------------------------------------------- bounds
NThreads == 2
MaxHandles == 3

Threads == 1..NThreads
Handles == 1..MaxHandles
NoHandle == 0

\* Paths: the file that exists and one path that names nothing.  (Locks on
\* different files are independent in the kernel: holder is per file.)
Files == {"a"}
Missing == "missing"
Paths == Files \cup {Missing}
NoPath == "-"

\* ------------------------------------------------- libc flags and errnos
LOCK_EX == 2
LOCK_NB == 4
LOCK_UN == 8

\* The errnos with which flock(2) fails apart from EWOULDBLOCK: ENOLCK when
\* the kernel has no memory for the lock record (any request), EINTR when a
\* signal ends the sleep of a blocking request.  EACCES is the failure of
\* open(2) on a file that exists.
LockFaults == {"ENOLCK"}
WaitFaults == {"EINTR"}
OpenFaults == {"EACCES"}
NoFault == "none"

\* io::Error::kind() of the errno carried by io::Error::last_os_error().
ErrorKind(errno) ==
    CASE errno = "EWOULDBLOCK" -> "WouldBlock"
      [] errno = "EINTR"       -> "Interrupted"
      [] errno = "ENOENT"      -> "NotFound"
      [] errno = "EACCES"      -> "PermissionDenied"
      [] errno = "EINVAL"      -> "InvalidInput"
      [] OTHER                 -> "Other"

\* ---------------------------------------------------------------- state
VARIABLES
    open,     \* open[h]: the path the open handle h was opened on, or NoPath
    holder,   \* holder[f]: the handle that holds the flock on file f, or NoHandle
    pc,       \* pc[t]: where thread t is inside its current call
    cur,      \* cur[t]: the handle of the Guard local to t's current call or drop
    guards,   \* guards[t]: the handles of the Guards returned to t and still in scope
    res,      \* res[t]: the result t's current call returns once its local guard is dropped
    last      \* the event of the step just taken: the call that returned in it or
              \* the guard that left its scope in it (NoCall if neither)

vars == <<open, holder, pc, cur, guards, res, last>>

Ops == {"lock", "try_lock", "drop", "scope_exit"}
ExitKinds == {"normal", "early_return", "panic"}
Results == {"Guard", "Some", "None", "Dropped",
            "Err:NotFound", "Err:PermissionDenied",
            "Err:Interrupted", "Err:Other", "Err:WouldBlock",
            "Err:InvalidInput"}
Pending == "pending"
NoCall == [t |-> 0, op |-> "none", path |-> NoPath, res |-> Pending, how |-> "none"]
Return(t, op, p, result, how) == [t |-> t, op |-> op, path |-> p, res |-> result, how |-> how]
NoResult == [op |-> "none", res |-> Pending]

FreeHandles == {h \in Handles : open[h] = NoPath}
LowestFree == CHOOSE h \in FreeHandles : \A g \in FreeHandles : h <= g

Ok(v) == [ok |-> TRUE, val |-> v]
Err(errno) == [ok |-> FALSE, val |-> ErrorKind(errno)]
ErrResult(kind) == "Err:" \o kind

\* ------------------------------------------------------------- the kernel
\* open(2), read-only: ENOENT for a path that names nothing, the injected
\* failure, EMFILE when the descriptor table is full, else the lowest free
\* descriptor, which refers to a fresh open file description.
SysOpen(p, fault) ==
    IF p = Missing THEN [r |-> -1, errno |-> "ENOENT", h |-> NoHandle]
    ELSE IF fault # NoFault THEN [r |-> -1, errno |-> fault, h |-> NoHandle]
    ELSE IF FreeHandles = {} THEN [r |-> -1, errno |-> "EMFILE", h |-> NoHandle]
    ELSE [r |-> 0, errno |-> NoFault, h |-> LowestFree]

\* flock(2) on the open file description h.  LOCK_UN gives up the lock if h
\* holds it and is a no-op otherwise.  LOCK_EX takes the lock when nobody
\* else holds it; when another description holds it the request fails with
\* EWOULDBLOCK under LOCK_NB and sleeps otherwise (blocked).
SysFlock(h, flag, fault) ==
    LET f == open[h]
        nb == (flag \div LOCK_NB) % 2 = 1
        un == (flag \div LOCK_UN) % 2 = 1
        ex == (flag \div LOCK_EX) % 2 = 1
        same == [r |-> 0, errno |-> NoFault, blocked |-> FALSE, holder |-> holder]
    IN  IF fault # NoFault
        THEN [same EXCEPT !.r = -1, !.errno = fault]
        ELSE IF un
        THEN IF holder[f] = h
             THEN [same EXCEPT !.holder = [holder EXCEPT ![f] = NoHandle]]
             ELSE same
        ELSE IF ~ex
        THEN [same EXCEPT !.r = -1, !.errno = "EINVAL"]
        ELSE IF holder[f] \in {NoHandle, h}
        THEN [same EXCEPT !.holder = [holder EXCEPT ![f] = h]]
        ELSE IF nb
        THEN [same EXCEPT !.r = -1, !.errno = "EWOULDBLOCK"]
        ELSE [same EXCEPT !.blocked = TRUE]

\* close(2) of the only descriptor of h's open file description: the
\* description goes away and with it the flock it holds.
SysClose(h) ==
    [open   |-> [open EXCEPT ![h] = NoPath],
     holder |-> [f \in Files |-> IF holder[f] = h THEN NoHandle ELSE holder[f]]]

\* ------------------------------------------------------------ the library
\* Mutant: the test of the return value is r <= 0, so success is an error.
flock_zero_is_error(h, flag, fault) ==
    LET k == SysFlock(h, flag, fault)
    IN  [blocked |-> k.blocked,
         result  |-> IF k.r <= 0 THEN Err(k.errno) ELSE Ok(h),
         holder  |-> k.holder]

\* fn flock(file, flag): r < 0 is Err(last_os_error()), anything else Ok(()).
flock(h, flag, fault) ==
    LET k == SysFlock(h, flag, fault)
    IN  [blocked |-> k.blocked,
         result  |-> IF k.r < 0 THEN Err(k.errno) ELSE Ok(h),
         holder  |-> k.holder]

\* Mutant: the blocking request passes the wrong flag.
lock_exclusive_wrong_flag(h, fault) == flock(h, LOCK_UN, fault)

\* Mutant: the blocking request is made non-blocking.
lock_exclusive_nonblocking(h, fault) == flock(h, LOCK_EX + LOCK_NB, fault)

lock_exclusive(h, fault) == flock(h, LOCK_EX, fault)

\* Mutant: the non-blocking request forgets LOCK_NB.
try_lock_exclusive_blocking(h, fault) == flock(h, LOCK_EX, fault)

try_lock_exclusive(h, fault) == flock(h, LOCK_EX + LOCK_NB, fault)

\* Mutant: the unlock request passes LOCK_EX.
unlock_locks(h, fault) == flock(h, LOCK_EX, fault)

unlock(h, fault) == flock(h, LOCK_UN, fault)

\* Mutant: the open error is wrapped in a new error of kind Other.
Guard_new_wraps_error(p, fault) ==
    LET o == SysOpen(p, fault)
    IN  IF o.r < 0 THEN [ok |-> FALSE, val |-> "Other"] ELSE Ok(o.h)

\* Guard::new: open the path read-only; `?` hands the open error back.
Guard_new(p, fault) ==
    LET o == SysOpen(p, fault)
    IN  IF o.r < 0 THEN Err(o.errno) ELSE Ok(o.h)

\* Mutant: the error of lock_exclusive is ignored, the guard is returned.
lock_result_ignores_error(r) == "Guard"

\* The `?` of lock: Ok(()) returns the guard, an error is returned as it is.
lock_result(r) ==
    IF r.ok THEN "Guard" ELSE ErrResult(r.val)

\* Mutant: the match has no arm for WouldBlock, contention is an error.
try_lock_result_no_would_block(r) ==
    IF r.ok THEN "Some" ELSE ErrResult(r.val)

\* Mutant: the match swallows every error as "not acquired".
try_lock_result_all_none(r) ==
    IF r.ok THEN "Some" ELSE "None"

\* The match of try_lock on the result of try_lock_exclusive.
try_lock_result(r) ==
    IF r.ok THEN "Some"
    ELSE IF r.val = "WouldBlock" THEN "None"
    ELSE ErrResult(r.val)

\* ---------------------------------------------------------------- steps
Init ==
    /\ open = [h \in Handles |-> NoPath]
    /\ holder = [f \in Files |-> NoHandle]
    /\ pc = [t \in Threads |-> "idle"]
    /\ cur = [t \in Threads |-> NoHandle]
    /\ guards = [t \in Threads |-> {}]
    /\ res = [t \in Threads |-> NoResult]
    /\ last = NoCall

\* The call's Guard::new(path)?: on an error the call returns it at once;
\* otherwise the call owns a Guard on a fresh handle and goes on to `next`.
OpenStep(t, op, p, fault, next) ==
    LET g == Guard_new(p, fault)
    IN  /\ IF g.ok
           THEN /\ open' = [open EXCEPT ![g.val] = p]
                /\ cur' = [cur EXCEPT ![t] = g.val]
                /\ pc' = [pc EXCEPT ![t] = next]
                /\ last' = NoCall
           ELSE /\ last' = Return(t, op, p, ErrResult(g.val), "none")
                /\ UNCHANGED <<open, cur, pc>>
        /\ UNCHANGED <<holder, guards, res>>

\* What a call does with the outcome r of its lock request: a result that
\* carries the guard moves it to the caller; otherwise the local guard goes
\* out of scope, so Drop for Guard runs before the call returns `result`.
Outcome(t, op, r, result) ==
    /\ holder' = r.holder
    /\ IF result \in {"Guard", "Some"}
       THEN /\ guards' = [guards EXCEPT ![t] = @ \cup {cur[t]}]
            /\ cur' = [cur EXCEPT ![t] = NoHandle]
            /\ pc' = [pc EXCEPT ![t] = "idle"]
            /\ last' = Return(t, op, open[cur[t]], result, "none")
            /\ UNCHANGED res
       ELSE /\ pc' = [pc EXCEPT ![t] = "drop"]
            /\ res' = [res EXCEPT ![t] = [op |-> op, res |-> result]]
            /\ last' = NoCall
            /\ UNCHANGED <<guards, cur>>
    /\ UNCHANGED open

\* lock, line 46: let guard = Guard::new(path.as_ref())?;
lock(t, p, fault) ==
    /\ pc[t] = "idle"
    /\ OpenStep(t, "lock", p, fault, "lock_flock")

\* lock, line 47: lock_exclusive(&guard.0)?;  The request sleeps in the
\* kernel while another handle holds the lock.
lock_request(t, fault) ==
    LET r == lock_exclusive(cur[t], fault)
    IN  /\ pc[t] = "lock_flock"
        /\ IF r.blocked
           THEN /\ pc' = [pc EXCEPT ![t] = "lock_wait"]
                /\ last' = NoCall
                /\ UNCHANGED <<open, holder, cur, guards, res>>
           ELSE Outcome(t, "lock", r, lock_result(r.result))

\* Mutant: an interrupted request is made again instead of being returned.
lock_resume_retries(t, fault) ==
    LET r == lock_exclusive(cur[t], fault)
    IN  /\ pc[t] = "lock_wait"
        /\ ~r.blocked
        /\ IF r.result.ok
           THEN Outcome(t, "lock", r, lock_result(r.result))
           ELSE /\ pc' = [pc EXCEPT ![t] = "lock_flock"]
                /\ last' = NoCall
                /\ UNCHANGED <<open, holder, cur, guards, res>>

\* The sleeping request completes: the lock became free and is taken, or
\* a signal ends the sleep (the library does not retry on EINTR).
lock_resume(t, fault) ==
    LET r == lock_exclusive(cur[t], fault)
    IN  /\ pc[t] = "lock_wait"
        /\ ~r.blocked
        /\ Outcome(t, "lock", r, lock_result(r.result))

\* try_lock, line 86: let guard = Guard::new(path.as_ref())?;
try_lock(t, p, fault) ==
    /\ pc[t] = "idle"
    /\ OpenStep(t, "try_lock", p, fault, "try_flock")

\* try_lock, lines 87-91: the non-blocking request and the match on it.
try_lock_request(t, fault) ==
    LET r == try_lock_exclusive(cur[t], fault)
    IN  /\ pc[t] = "try_flock"
        /\ ~r.blocked
        /\ Outcome(t, "try_lock", r, try_lock_result(r.result))

\* A Guard the caller holds leaves its scope.
scope_exit(t, h, how) ==
    /\ pc[t] = "idle"
    /\ h \in guards[t]
    /\ guards' = [guards EXCEPT ![t] = @ \ {h}]
    /\ cur' = [cur EXCEPT ![t] = h]
    /\ pc' = [pc EXCEPT ![t] = "drop"]
    /\ res' = [res EXCEPT ![t] = [op |-> "drop", res |-> "Dropped"]]
    /\ last' = Return(t, "scope_exit", open[h], Pending, how)
    /\ UNCHANGED <<open, holder>>

\* Mutant: the result of unlock is not thrown away, a failure becomes the
\* result of the drop.
drop_surfaces_error(t, fault) ==
    LET r == unlock(cur[t], fault)
    IN  /\ pc[t] = "drop"
        /\ holder' = r.holder
        /\ pc' = [pc EXCEPT ![t] = "close"]
        /\ last' = NoCall
        /\ res' = IF r.result.ok THEN res
                  ELSE [res EXCEPT ![t] = [op |-> res[t].op, res |-> ErrResult(r.result.val)]]
        /\ UNCHANGED <<open, cur, guards>>

\* Drop for Guard: unlock(&self.0).ok(); the result is thrown away.
drop(t, fault) ==
    LET r == unlock(cur[t], fault)
    IN  /\ pc[t] = "drop"
        /\ holder' = r.holder
        /\ pc' = [pc EXCEPT ![t] = "close"]
        /\ last' = NoCall
        /\ UNCHANGED <<open, cur, guards, res>>

\* Mutant: the Guard keeps a raw descriptor that nothing closes.
close_forgets(t) ==
    /\ pc[t] = "close"
    /\ cur' = [cur EXCEPT ![t] = NoHandle]
    /\ pc' = [pc EXCEPT ![t] = "idle"]
    /\ res' = [res EXCEPT ![t] = NoResult]
    /\ last' = Return(t, res[t].op, open[cur[t]], res[t].res, "none")
    /\ UNCHANGED <<open, holder, guards>>

\* Mutant: the guard local to a call that returns no guard is leaked, only
\* a Guard that leaves the caller's scope is closed.
close_leaks_probe(t) ==
    LET c == SysClose(cur[t])
    IN  /\ pc[t] = "close"
        /\ open' = IF res[t].op = "drop" THEN c.open ELSE open
        /\ holder' = IF res[t].op = "drop" THEN c.holder ELSE holder
        /\ cur' = [cur EXCEPT ![t] = NoHandle]
        /\ pc' = [pc EXCEPT ![t] = "idle"]
        /\ res' = [res EXCEPT ![t] = NoResult]
        /\ last' = Return(t, res[t].op, open[cur[t]], res[t].res, "none")
        /\ UNCHANGED guards

\* The File inside the Guard is dropped after Drop::drop: close(2).
\* The call (or the scope exit) is over.
close(t) ==
    LET c == SysClose(cur[t])
    IN  /\ pc[t] = "close"
        /\ open' = c.open
        /\ holder' = c.holder
        /\ cur' = [cur EXCEPT ![t] = NoHandle]
        /\ pc' = [pc EXCEPT ![t] = "idle"]
        /\ res' = [res EXCEPT ![t] = NoResult]
        /\ last' = Return(t, res[t].op, open[cur[t]], res[t].res, "none")
        /\ UNCHANGED guards

Faults == LockFaults \cup {NoFault}

Next ==
    \/ \E t \in Threads, p \in Paths, fault \in OpenFaults \cup {NoFault} : lock(t, p, fault)
    \/ \E t \in Threads, fault \in Faults : lock_request(t, fault)
    \/ \E t \in Threads, fault \in WaitFaults \cup {NoFault} : lock_resume(t, fault)
    \/ \E t \in Threads, p \in Paths, fault \in OpenFaults \cup {NoFault} : try_lock(t, p, fault)
    \/ \E t \in Threads, fault \in Faults : try_lock_request(t, fault)
    \/ \E t \in Threads, h \in Handles, how \in ExitKinds : scope_exit(t, h, how)
    \/ \E t \in Threads, fault \in Faults : drop(t, fault)
    \/ \E t \in Threads : close(t)

Spec == Init /\ [][Next]_vars

TypeOK ==
    /\ open \in [Handles -> Paths \cup {NoPath}]
    /\ holder \in [Files -> Handles \cup {NoHandle}]
    /\ pc \in [Threads -> {"idle", "lock_flock", "lock_wait", "try_flock", "drop", "close"}]
    /\ cur \in [Threads -> Handles \cup {NoHandle}]
    /\ guards \in [Threads -> SUBSET Handles]
    /\ \A t \in Threads :
          /\ res[t].op \in Ops \cup {"none"}
          /\ res[t].res \in Results \cup {Pending}
    /\ last.t \in Threads \cup {0}
    /\ last.op \in Ops \cup {"none"}
    /\ last.path \in Paths \cup {NoPath}
    /\ last.res \in Results \cup {Pending}
    /\ last.how \in ExitKinds \cup {"none"}

\* ---------------------------------------------------------------- claims
\* The guards on file f that were returned to a caller and are still in scope.
GuardsOn(f) == {x \in Threads \X Handles : x[2] \in guards[x[1]] /\ open[x[2]] = f}

\* C1: mutual exclusion.  In every reachable state at most one Guard that
\* lock or try_lock returned and that has not been dropped exists on a file,
\* over all threads, and that Guard's handle is the one holding the flock.
C1_MutualExclusion ==
    \A f \in Files :
        /\ Cardinality(GuardsOn(f)) <= 1
        /\ \A x \in GuardsOn(f) : holder[f] = x[2]

\* One thread holds the Guard on a file while another thread's lock call on
\* the same file sleeps on its own handle.
C1_Witness ==
    \E t, u \in Threads : \E h \in guards[t] :
        /\ u # t
        /\ pc[u] = "lock_wait"
        /\ open[cur[u]] = open[h]
        /\ holder[open[h]] = h

\* Thread t takes the step that makes the lock request of its try_lock call.
TryRequestStep(t) == pc[t] = "try_flock" /\ pc'[t] # "try_flock"

\* Another handle than t's own holds the lock on the file of t's call.
HeldByOther(t) == holder[open[cur[t]]] \notin {NoHandle, cur[t]}

\* The results with which a call hands back the failure of its own flock(2).
LockErrors == {ErrResult(ErrorKind(e)) : e \in LockFaults}

\* C2 as stated: the lock request of a try_lock made while another handle
\* holds the lock always makes the call return Ok(None), never an error.
C2_Original ==
    [][\A t \in Threads :
         (TryRequestStep(t) /\ HeldByOther(t)) => res'[t].res = "None"]_vars

\* C2 as amended: the lock request of a try_lock made while another handle
\* holds the lock makes the call return Ok(None), or the error of the request
\* when flock(2) itself fails; the call gets no Guard, and the holder of the
\* lock stays the same whoever it is.
C2_ContendedTryLock ==
    [][\A t \in Threads :
         (TryRequestStep(t) /\ HeldByOther(t)) =>
            /\ res'[t].res \in {"None"} \cup LockErrors
            /\ res'[t].op = "try_lock"
            /\ guards' = guards
            /\ holder' = holder]_vars

\* A try_lock is about to return None while another thread's Guard holds
\* the lock on the same file.
C2_Witness ==
    \E t, u \in Threads : \E h \in guards[u] :
        /\ u # t
        /\ pc[t] = "drop"
        /\ res[t] = [op |-> "try_lock", res |-> "None"]
        /\ open[cur[t]] = open[h]
        /\ holder[open[h]] = h

\* Nobody holds the lock on the file of t's call.
LockFree(t) == holder[open[cur[t]]] = NoHandle

\* t's call returns `result` and hands its Guard to t, which holds the lock.
ReturnsGuard(t, op, result) ==
    /\ last' = Return(t, op, open[cur[t]], result, "none")
    /\ pc'[t] = "idle"
    /\ guards'[t] = guards[t] \cup {cur[t]}
    /\ holder'[open[cur[t]]] = cur[t]

\* C3 as stated: the lock request of a try_lock made while nobody holds the
\* lock on the (existing, opened) file always makes the call return
\* Ok(Some(guard)) with the guard holding the lock.
C3_Original ==
    [][\A t \in Threads :
         (TryRequestStep(t) /\ LockFree(t)) => ReturnsGuard(t, "try_lock", "Some")]_vars

\* C3 as amended: the lock request of a try_lock made while nobody holds the
\* lock makes the call return Ok(Some(guard)) with the guard holding the
\* lock, unless flock(2) itself fails, and then the call returns that error
\* and the lock stays free; the call never returns None.
C3_FreeTryLock ==
    [][\A t \in Threads :
         (TryRequestStep(t) /\ LockFree(t)) =>
            \/ ReturnsGuard(t, "try_lock", "Some")
            \/ /\ res'[t].res \in LockErrors
               /\ res'[t].op = "try_lock"
               /\ guards' = guards
               /\ holder' = holder]_vars

\* A try_lock on the free file has just returned Some and its guard holds
\* the lock.
C3_Witness ==
    /\ last.op = "try_lock"
    /\ last.res = "Some"
    /\ last.path \in Files
    /\ holder[last.path] \in guards[last.t]

\* The handle h belongs to a Guard that exists: one a caller holds, or the
\* one a thread is dropping (its Drop::drop or the close after it pending).
GuardExists(h) ==
    \E t \in Threads :
        \/ h \in guards[t]
        \/ cur[t] = h /\ pc[t] \in {"drop", "close"}

\* No lock outlives its Guard: whoever holds the lock is a Guard that a
\* caller still holds or whose drop has not finished yet, on that file.
NoOrphanLock ==
    \A f \in Files :
        holder[f] # NoHandle => (GuardExists(holder[f]) /\ open[holder[f]] = f)

\* The drop of a Guard that left its scope has just finished on last.path,
\* nobody acquired the lock meanwhile, and thread u, another thread, is about
\* to make the lock request of a try_lock on that file.
TryAfterDrop(u) ==
    /\ last.op = "drop"
    /\ u # last.t
    /\ pc[u] = "try_flock"
    /\ open[cur[u]] = last.path
    /\ holder[last.path] = NoHandle

\* What u's try_lock returns if it makes its lock request now.
TryNow(u, fault) == try_lock_result(try_lock_exclusive(cur[u], fault).result)

\* C4 as stated: every scope exit of a Guard releases the lock in its drop,
\* and a try_lock from another thread that follows the drop with no other
\* acquirer in between returns Some, whatever happens to its request.
C4_Original ==
    /\ NoOrphanLock
    /\ \A u \in Threads :
          TryAfterDrop(u) => \A fault \in Faults : TryNow(u, fault) = "Some"

\* C4 as amended: every scope exit of a Guard (normal, early return, panic)
\* releases the lock in its drop, so when the drop has finished the dropped
\* handle holds no lock; a try_lock from another thread that follows with no
\* other acquirer in between returns Some and takes the lock, unless
\* flock(2) itself fails, and then it returns that error; never None.
C4_ReleaseOnDrop ==
    /\ NoOrphanLock
    /\ \A u \in Threads :
          TryAfterDrop(u) =>
              /\ TryNow(u, NoFault) = "Some"
              /\ try_lock_exclusive(cur[u], NoFault).holder[last.path] = cur[u]
              /\ \A fault \in LockFaults : TryNow(u, fault) \in LockErrors

\* The drop of a Guard that held the lock has just finished, the lock is
\* free, and another thread's try_lock is about to make its lock request.
C4_Witness == \E u \in Threads : TryAfterDrop(u)

\* Thread t is inside a lock call whose Guard::new succeeded.
InLock(t) == pc[t] \in {"lock_flock", "lock_wait"}

\* The results with which a lock call hands back the end of its sleep by a
\* signal.
WaitErrors == {ErrResult(ErrorKind(e)) : e \in WaitFaults}

\* The step leaves things as the contended call of t requires: t gets no
\* Guard, and its handle does not become the holder of the lock.
NotAcquired(t) ==
    /\ guards'[t] = guards[t]
    /\ holder'[open[cur[t]]] # cur[t]
    /\ holder'[open[cur[t]]] = holder[open[cur[t]]] \/ pc'[t] = pc[t]

\* C5 as stated: while another handle holds the lock, a lock call neither
\* returns a Guard nor an error caused by contention, and every acquisition
\* attempt blocks (lock) or yields None (try_lock).
C5_Original ==
    [][\A t \in Threads :
         /\ (InLock(t) /\ HeldByOther(t)) =>
               /\ NotAcquired(t)
               /\ pc[t] = "lock_flock" => pc'[t] \in {"lock_flock", "lock_wait"}
               /\ pc'[t] = "drop" => res'[t].res \notin {"Err:WouldBlock", "None"}
         /\ (TryRequestStep(t) /\ HeldByOther(t)) =>
               NotAcquired(t) /\ res'[t].res = "None"]_vars

\* C5 as amended: while another handle holds the lock, a lock call neither
\* returns a Guard nor an error caused by contention: its request blocks, or
\* fails with the error of flock(2) itself (ENOLCK at the request, EINTR
\* during the sleep); a try_lock yields None or the error of its own
\* request.  No attempt acquires before the holder has released.
C5_BlockedUntilRelease ==
    [][\A t \in Threads :
         /\ (InLock(t) /\ HeldByOther(t)) =>
               /\ NotAcquired(t)
               /\ pc'[t] \in {pc[t], "lock_wait", "drop"}
               /\ pc'[t] = "drop" /\ pc[t] = "lock_flock" => res'[t].res \in LockErrors
               /\ pc'[t] = "drop" /\ pc[t] = "lock_wait" => res'[t].res \in WaitErrors
         /\ (TryRequestStep(t) /\ HeldByOther(t)) =>
               NotAcquired(t) /\ res'[t].res \in {"None"} \cup LockErrors]_vars

\* A lock call sleeps on a lock that another handle holds, and a try_lock
\* made during the same hold has just returned None.
C5_Witness ==
    \E t \in Threads :
        /\ pc[t] = "lock_wait"
        /\ HeldByOther(t)
        /\ last.op = "try_lock"
        /\ last.res = "None"
        /\ last.path = open[cur[t]]

\* Thread t is inside a try_lock call whose Guard::new succeeded: before its
\* lock request, or dropping the local guard before it returns.
InTryLock(t) ==
    \/ pc[t] = "try_flock"
    \/ pc[t] \in {"drop", "close"} /\ res[t].op = "try_lock"

\* The next step of t's try_lock call, when the kernel answers its flock(2)
\* with `fault`.
TryLockStep(t, fault) ==
    \/ try_lock_request(t, fault)
    \/ drop(t, fault)
    \/ close(t)

\* The number of steps a call at pc has left at most before it returns.
StepsLeft(at) ==
    CASE at = "try_flock" -> 3
      [] at = "drop"      -> 2
      [] at = "close"     -> 1
      [] OTHER            -> 0

\* C6: try_lock never blocks.  In every reachable state a try_lock call that
\* is under way can take its next step, whatever the other threads do,
\* whoever holds the lock and whether or not the kernel fails the request,
\* and each of its steps brings it closer to its
\* return: after the open it returns within three steps of its own (the
\* lock request, then the unlock and the close of the probing handle).
C6_TryLockNeverBlocks ==
    /\ [](\A t \in Threads : \A fault \in Faults :
             InTryLock(t) => ENABLED TryLockStep(t, fault))
    /\ [][\A t \in Threads :
            (InTryLock(t) /\ pc'[t] # pc[t]) =>
                StepsLeft(pc'[t]) < StepsLeft(pc[t])]_vars

\* A try_lock is about to make its lock request while another thread holds
\* the lock on that file.
C6_Witness ==
    \E t \in Threads : pc[t] = "try_flock" /\ HeldByOther(t)

\* Thread t takes the first step of a lock call on path p: it is idle and
\* in the step either leaves "idle" for the lock request or returns.
LockCallStep(t, p) ==
    /\ pc[t] = "idle"
    /\ \/ pc'[t] = "lock_flock" /\ open'[cur'[t]] = p
       \/ last'.t = t /\ last'.op = "lock" /\ last'.path = p

\* C7: lock on a path that does not exist returns the not-found error in
\* its first step, without making a lock request: the call is always able to
\* take that step, no handle is ever open on the missing path (so no
\* flock(2) is issued on it and nothing waits), and the step changes neither
\* the holder of any lock nor the open handles nor any Guard.
C7_LockMissingPath ==
    /\ [](\A h \in Handles : open[h] # Missing)
    /\ [](\A t \in Threads : pc[t] = "idle" =>
             ENABLED lock(t, Missing, NoFault))
    /\ [][\A t \in Threads :
            LockCallStep(t, Missing) =>
                /\ last' = Return(t, "lock", Missing, "Err:NotFound", "none")
                /\ UNCHANGED <<open, holder, pc, cur, guards, res>>]_vars

\* lock on the missing path has just returned NotFound while a Guard holds
\* the lock on a file and another handle is open.
C7_Witness ==
    /\ last.op = "lock"
    /\ last.path = Missing
    /\ last.res = "Err:NotFound"
    /\ \E f \in Files : holder[f] # NoHandle
    /\ \E h \in Handles : open[h] # NoPath /\ \A f \in Files : holder[f] # h

\* The answer of the kernel to the non-blocking request of t's try_lock.
TryAnswer(t, fault) == SysFlock(cur[t], LOCK_EX + LOCK_NB, fault)

\* What try_lock has to return for the answer k of the kernel: Some for
\* success, None for the would-block status, Err for every other failure.
Expected(k) ==
    IF k.r >= 0 THEN "Some"
    ELSE IF k.errno = "EWOULDBLOCK" THEN "None"
    ELSE ErrResult(ErrorKind(k.errno))

\* The results of a call whose open failed.
OpenErrors == {ErrResult(ErrorKind(e)) : e \in OpenFaults \cup {"ENOENT", "EMFILE"}}

\* Thread t takes the first step of a try_lock call and the call returns in it.
TryOpenFails(t) ==
    pc[t] = "idle" /\ pc'[t] = "idle" /\ last'.t = t /\ last'.op = "try_lock"

\* C8: try_lock separates the outcomes of its non-blocking lock request
\* exactly.  For every answer the kernel can give to the request, success
\* gives Some, the would-block status gives None and every other failure
\* gives Err of that failure; the step that makes the request delivers the
\* result of one of these answers; and a failed open gives Err.  So
\* contention is never an Err and no other failure is ever None.
C8_TryLockOutcomes ==
    /\ [](\A t \in Threads : \A fault \in Faults :
             pc[t] = "try_flock" =>
                 /\ TryNow(t, fault) = Expected(TryAnswer(t, fault))
                 /\ TryNow(t, fault) = "None" <=> (fault = NoFault /\ HeldByOther(t))
                 /\ TryNow(t, fault) = "Some" <=> (fault = NoFault /\ ~HeldByOther(t)))
    /\ [][\A t \in Threads :
            TryRequestStep(t) =>
                \E fault \in Faults :
                    LET k == TryAnswer(t, fault)
                    IN  /\ holder' = k.holder
                        /\ IF k.r >= 0
                           THEN ReturnsGuard(t, "try_lock", "Some")
                           ELSE /\ pc'[t] = "drop"
                                /\ res'[t] = [op |-> "try_lock", res |-> Expected(k)]
                                /\ guards' = guards]_vars
    /\ [][\A t \in Threads :
            TryOpenFails(t) => last'.res \in OpenErrors /\ UNCHANGED <<open, holder, guards>>]_vars

\* The request of a try_lock failed for another reason than contention
\* while another handle holds the lock, and the call is about to return
\* that error, not None.
C8_Witness ==
    \E t \in Threads :
        /\ pc[t] = "drop"
        /\ res[t].op = "try_lock"
        /\ res[t].res \in LockErrors
        /\ HeldByOther(t)

\* The handles that are open, the Guards the callers hold (one per thread
\* and handle), and the handles of the calls and drops under way.
OpenHandles == {h \in Handles : open[h] # NoPath}
HeldGuards == {x \in Threads \X Handles : x[2] \in guards[x[1]]}
InFlight == {cur[t] : t \in {u \in Threads : pc[u] # "idle"}}
Quiescent == \A t \in Threads : pc[t] = "idle"

\* C9: no handle leak.  The open handles are exactly those of the Guards the
\* callers hold and of the calls and drops still under way, each counted
\* once; so whenever every call and drop has completed, whatever their
\* outcomes were, the number of open handles equals the number of Guards
\* returned and not yet dropped.  When all Guards have been dropped every
\* descriptor is free again and the lock is free, so the next acquire gets a
\* descriptor and is granted the lock, cycle after cycle.
C9_NoHandleLeak ==
    /\ OpenHandles = {x[2] : x \in HeldGuards} \cup InFlight
    /\ {x[2] : x \in HeldGuards} \cap InFlight = {}
    /\ Cardinality(HeldGuards) = Cardinality({x[2] : x \in HeldGuards})
    /\ Quiescent => Cardinality(OpenHandles) = Cardinality(HeldGuards)
    /\ (Quiescent /\ HeldGuards = {}) =>
          /\ FreeHandles = Handles
          /\ \A f \in Files :
                /\ holder[f] = NoHandle
                /\ Guard_new(f, NoFault).ok

\* A Guard's drop has just completed, every call has returned, no Guard is
\* left and no handle is open: the next cycle starts from a clean state.
C9_Witness ==
    /\ last.op = "drop"
    /\ Quiescent
    /\ HeldGuards = {}
    /\ OpenHandles = {}

\* Thread t's try_lock found the lock held and is on its way to return None.
ReturningNone(t) ==
    pc[t] \in {"drop", "close"} /\ res[t] = [op |-> "try_lock", res |-> "None"]

\* C10: a try_lock that returns None changes neither the holder of the lock
\* nor, on return, the open handles.  Its request leaves the holder alone;
\* its probing handle never holds the lock; the unlock that the drop of the
\* local guard issues on that handle, whether it succeeds or fails, leaves
\* the other handle's lock in place; and the close that ends the call
\* closes the probing handle and nothing else, so that no handle of the
\* call stays open.
C10_NoneLeavesNoTrace ==
    /\ [](\A t \in Threads :
             ReturningNone(t) =>
                 /\ \A f \in Files : holder[f] # cur[t]
                 /\ \A fault \in Faults : unlock(cur[t], fault).holder = holder)
    /\ [][\A t \in Threads :
            /\ (TryRequestStep(t) /\ HeldByOther(t)) =>
                  holder' = holder /\ guards' = guards
            /\ (ReturningNone(t) /\ pc'[t] # pc[t]) =>
                  /\ holder' = holder
                  /\ guards' = guards
                  /\ pc[t] = "drop" => (pc'[t] = "close" /\ open' = open)
                  /\ pc[t] = "close" =>
                        /\ last' = Return(t, "try_lock", open[cur[t]], "None", "none")
                        /\ pc'[t] = "idle"
                        /\ cur'[t] = NoHandle
                        /\ OpenHandles' = OpenHandles \ {cur[t]}]_vars

\* A try_lock has just returned None: its probing handle is closed and the
\* Guard of another thread still holds the lock.
C10_Witness ==
    /\ last.op = "try_lock"
    /\ last.res = "None"
    /\ \E u \in Threads : u # last.t /\ holder[last.path] \in guards[u]
    /\ OpenHandles = {x[2] : x \in HeldGuards} \cup InFlight

\* Thread t is dropping a Guard that left the caller's scope.
DroppingGuard(t) == pc[t] \in {"drop", "close"} /\ res[t].op = "drop"

\* C11: release never fails for the caller.  The drop of a Guard can take
\* its unlock step for both outcomes of the unlock request and its close
\* step after it; the unlock step changes nothing but the lock and goes on
\* to the close whatever the request returned; the close closes the handle
\* and ends the drop; and what the drop ends with is never an error.
C11_DropNeverFails ==
    /\ [](\A t \in Threads :
             /\ pc[t] = "drop" => \A fault \in Faults : ENABLED drop(t, fault)
             /\ pc[t] = "close" => ENABLED close(t)
             /\ DroppingGuard(t) => res[t].res = "Dropped")
    /\ [][\A t \in Threads :
            (DroppingGuard(t) /\ pc'[t] # pc[t]) =>
                /\ guards' = guards
                /\ pc[t] = "drop" =>
                      /\ pc'[t] = "close"
                      /\ UNCHANGED <<open, cur, res>>
                /\ pc[t] = "close" =>
                      /\ pc'[t] = "idle"
                      /\ open'[cur[t]] = NoPath
                      /\ last' = Return(t, "drop", open[cur[t]], "Dropped", "none")]_vars

\* The unlock request of a Guard's drop failed (its handle still holds the
\* lock) and the drop has gone on to close the handle.
C11_Witness ==
    \E t \in Threads :
        /\ DroppingGuard(t)
        /\ pc[t] = "close"
        /\ holder[open[cur[t]]] = cur[t]

\* In the step a lock or try_lock call of some thread succeeds on file f:
\* it returns its Guard, whose handle is the new holder.
AcquireStep(f) ==
    \E t \in Threads :
        /\ pc[t] \in {"lock_flock", "lock_wait", "try_flock"}
        /\ open[cur[t]] = f
        /\ last'.t = t /\ last'.path = f
        /\ \/ last'.op = "lock" /\ last'.res = "Guard"
           \/ last'.op = "try_lock" /\ last'.res = "Some"
        /\ holder'[f] = cur[t]
        /\ cur[t] \in guards'[t]

\* The step is a step of the drop of the Guard that holds the lock on f:
\* its unlock request, or the close of its handle.
ReleaseStep(f) ==
    \E t \in Threads :
        /\ DroppingGuard(t)
        /\ cur[t] = holder[f]
        /\ pc'[t] # pc[t]

\* C12: the lock on a file is Unlocked or Locked by one handle; it becomes
\* Locked only in a step in which a lock or try_lock call succeeds, becomes
\* Unlocked only in a step of the drop of the Guard that holds it, and never
\* passes from one holder to another in one step.  So no other step (a
\* failed open, a failed or contended request, the drop of a guard that
\* does not hold the lock) changes who holds the lock.
C12_LockTransitions ==
    [][\A f \in Files :
         /\ (holder[f] = NoHandle /\ holder'[f] # NoHandle) => AcquireStep(f)
         /\ (holder[f] # NoHandle /\ holder'[f] = NoHandle) => ReleaseStep(f)
         /\ (holder[f] # NoHandle /\ holder'[f] # NoHandle) => holder'[f] = holder[f]]_vars

\* A call has just failed on its lock request and dropped its own guard
\* while the Guard of another thread kept the lock all along.
C12_Witness ==
    /\ last.op \in {"lock", "try_lock"}
    /\ last.res \in LockErrors \cup WaitErrors \cup {"None"}
    /\ \E u \in Threads : u # last.t /\ holder[last.path] \in guards[u]

\* The handles of the Guard values that exist: those the callers hold and
\* the one local to each call or drop under way.
ExistingGuards == {x[2] : x \in HeldGuards} \cup InFlight

\* The local Guard of a call: built by Guard::new, before its lock request
\* is granted or on its way out after the request was refused or failed.
LocalGuard(t) ==
    \/ pc[t] \in {"lock_flock", "lock_wait", "try_flock"}
    \/ pc[t] \in {"drop", "close"} /\ res[t].op \in {"lock", "try_lock"}

\* C13 as stated: every Guard value that exists holds the lock on its file,
\* the Guard built by Guard::new inside lock and try_lock included.
C13_Original ==
    \A h \in ExistingGuards : holder[open[h]] = h

\* C13 as amended: every Guard that lock or try_lock returned and that has
\* not left its scope holds the lock on its file.  The Guard built by
\* Guard::new inside a call does not: it holds no lock before its lock
\* request is granted, and when the request is refused or fails it is
\* dropped without ever having held the lock.
C13_ReturnedGuardHolds ==
    /\ \A x \in HeldGuards : open[x[2]] \in Files /\ holder[open[x[2]]] = x[2]
    /\ \A t \in Threads : LocalGuard(t) => holder[open[cur[t]]] # cur[t]

\* A try_lock has built its Guard and not made its lock request yet:
\* the Guard exists and nobody holds the lock.
C13_Witness ==
    \E t \in Threads : pc[t] = "try_flock" /\ LockFree(t)

\* Thread t's lock call, past its Guard::new, takes a step that ends its
\* lock request: the request is answered or its sleep is over.
LockRequestEnds(t) == InLock(t) /\ pc'[t] \notin {"lock_flock", "lock_wait"}

\* t's lock call goes to sleep in its lock request; nothing else changes.
Blocks(t) ==
    /\ pc[t] = "lock_flock"
    /\ pc'[t] = "lock_wait"
    /\ HeldByOther(t)
    /\ UNCHANGED <<open, holder, cur, guards, res>>

\* t's lock request failed: the call is on its way to return `errors`
\* without a Guard and without the lock.
FailsWith(t, errors) ==
    /\ pc'[t] = "drop"
    /\ res'[t].op = "lock"
    /\ res'[t].res \in errors
    /\ guards' = guards
    /\ holder' = holder

\* C14 as stated: once the lock request of a lock call is made, the call
\* either returns its Guard holding the lock or stays blocked; it never
\* returns without the lock.
C14_Original ==
    [][\A t \in Threads :
         /\ LockRequestEnds(t) => ReturnsGuard(t, "lock", "Guard")
         /\ (pc[t] = "lock_flock" /\ pc'[t] = "lock_wait") => Blocks(t)]_vars

\* C14 as amended: a lock call whose Guard::new succeeded has three
\* outcomes: it returns its Guard holding the lock; it blocks, for as long
\* as another handle holds the lock and no signal arrives; or it returns
\* the error of its lock request without the lock (ENOLCK when the request
\* is made, EINTR when a signal ends the sleep, which is not retried).  It
\* never returns Ok without the lock and never reports contention.
C14_LockOutcomes ==
    /\ [](\A t \in Threads :
             (pc[t] = "lock_wait" /\ HeldByOther(t)) =>
                 ~ENABLED lock_resume(t, NoFault))
    /\ [][\A t \in Threads :
            /\ LockRequestEnds(t) =>
                  \/ ReturnsGuard(t, "lock", "Guard")
                  \/ pc[t] = "lock_flock" /\ FailsWith(t, LockErrors)
                  \/ pc[t] = "lock_wait" /\ FailsWith(t, WaitErrors)
            /\ (pc[t] = "lock_flock" /\ pc'[t] = "lock_wait") => Blocks(t)]_vars

\* A lock call has just returned Interrupted, without the lock, while the
\* Guard of another thread still holds the lock.
C14_Witness ==
    /\ last.op = "lock"
    /\ last.res \in WaitErrors
    /\ \E u \in Threads : u # last.t /\ holder[last.path] \in guards[u]

\* Thread t's call is past its one lock request, which failed for another
\* reason than contention, and is on its way to return that error.
ReturningLockError(t) ==
    /\ pc[t] \in {"drop", "close"}
    /\ res[t].op \in {"lock", "try_lock"}
    /\ res[t].res \in LockErrors \cup WaitErrors

\* C15: a call whose lock request fails for another reason than contention
\* makes that one request only: once the request is made the call never
\* comes back to the point before it, and the failed request takes the call
\* straight to the drop of its guard with the error as its result.  From
\* there the call changes no holder, its handle never holds the lock, it
\* gets no Guard, and the step that returns the error closes its handle.
C15_LockErrorReturned ==
    /\ [](\A t \in Threads :
             ReturningLockError(t) =>
                 /\ holder[open[cur[t]]] # cur[t]
                 /\ cur[t] \notin guards[t])
    /\ [][\A t \in Threads :
            /\ pc[t] \in {"lock_wait", "drop", "close"} =>
                  pc'[t] \notin {"lock_flock", "try_flock"}
            /\ pc[t] \in {"lock_flock", "try_flock"} =>
                  pc'[t] \in {pc[t], "lock_wait", "drop", "idle"}
            /\ (ReturningLockError(t) /\ pc'[t] # pc[t]) =>
                  /\ holder' = holder
                  /\ guards' = guards
                  /\ pc[t] = "drop" => (pc'[t] = "close" /\ UNCHANGED <<open, res>>)
                  /\ pc[t] = "close" =>
                        /\ pc'[t] = "idle"
                        /\ last' = Return(t, res[t].op, open[cur[t]], res[t].res, "none")
                        /\ OpenHandles' = OpenHandles \ {cur[t]}
                        /\ cur'[t] = NoHandle]_vars

\* The lock request of a lock call failed while another handle holds the
\* lock, its guard's unlock is done and the call is about to close its
\* handle and return the error.
C15_Witness ==
    \E t \in Threads :
        /\ ReturningLockError(t)
        /\ res[t].op = "lock"
        /\ pc[t] = "close"
        /\ HeldByOther(t)

\* The thread making the call of t holds itself a Guard on the file of the
\* call, and that Guard's handle holds the lock.
SelfHeld(t) ==
    \E h \in guards[t] : open[h] = open[cur[t]] /\ holder[open[h]] = h

\* The Guards that thread t holds on file f.
OwnGuardsOn(t, f) == {h \in guards[t] : open[h] = f}

\* C16 as stated: a thread that holds a Guard on a file gets None from its
\* try_lock on that file, its lock on that file never returns, and no
\* thread ever holds two Guards on one file.
C16_Original ==
    /\ [](\A t \in Threads, f \in Files : Cardinality(OwnGuardsOn(t, f)) <= 1)
    /\ [][\A t \in Threads :
            /\ (TryRequestStep(t) /\ SelfHeld(t)) => res'[t].res = "None"
            /\ (InLock(t) /\ SelfHeld(t)) => InLock(t)']_vars

\* C16 as amended: the call of a thread that holds a Guard on the file uses
\* a handle of its own, which is not the holder, and contends like any
\* other: its try_lock returns None, or the error of its request when
\* flock(2) itself fails; its lock request blocks and cannot complete, and
\* the call returns only with the error of its request (ENOLCK at the
\* request, EINTR ending the sleep), never with a Guard.  The first Guard
\* stays the holder throughout, and no thread ever holds two Guards on one
\* file.
C16_NoReentrancy ==
    /\ [](\A t \in Threads, f \in Files : Cardinality(OwnGuardsOn(t, f)) <= 1)
    /\ [](\A t \in Threads :
             (InLock(t) /\ SelfHeld(t)) =>
                 /\ cur[t] \notin guards[t]
                 /\ pc[t] = "lock_wait" => ~ENABLED lock_resume(t, NoFault)
                 /\ pc[t] = "lock_flock" =>
                       ~ENABLED (lock_request(t, NoFault) /\ pc'[t] # "lock_wait"))
    /\ [][\A t \in Threads :
            /\ (TryRequestStep(t) /\ SelfHeld(t)) =>
                  /\ res'[t].res \in {"None"} \cup LockErrors
                  /\ guards' = guards
                  /\ holder' = holder
            /\ (InLock(t) /\ SelfHeld(t)) =>
                  /\ guards'[t] = guards[t]
                  /\ holder'[open[cur[t]]] = holder[open[cur[t]]]
                  /\ \/ InLock(t)'
                     \/ pc[t] = "lock_flock" /\ FailsWith(t, LockErrors)
                     \/ pc[t] = "lock_wait" /\ FailsWith(t, WaitErrors)]_vars

\* Self-deadlock: a thread that holds the Guard on a file sleeps in its own
\* lock call on the same file.
C16_Witness ==
    \E t \in Threads : pc[t] = "lock_wait" /\ SelfHeld(t)

\* The program as the progress claim takes it: lock requests do not fail.
\* Opening may fail and the unlock of a drop may fail.
FairNext ==
    \/ \E t \in Threads, p \in Paths, fault \in OpenFaults \cup {NoFault} : lock(t, p, fault)
    \/ \E t \in Threads : lock_request(t, NoFault)
    \/ \E t \in Threads : lock_resume(t, NoFault)
    \/ \E t \in Threads, p \in Paths, fault \in OpenFaults \cup {NoFault} : try_lock(t, p, fault)
    \/ \E t \in Threads : try_lock_request(t, NoFault)
    \/ \E t \in Threads, h \in Handles, how \in ExitKinds : scope_exit(t, h, how)
    \/ \E t \in Threads, fault \in Faults : drop(t, fault)
    \/ \E t \in Threads : close(t)

\* A sleeping lock request is given the lock: the blocked call returns its
\* Guard.
WakeUp == \E t \in Threads : lock_resume(t, NoFault)

\* Scheduling.  A thread that is inside a call and not asleep goes on
\* running: its request, the drop of its guard and the close of its file
\* happen (weak fairness).  When the lock is released the kernel wakes the
\* sleeping requests; a lock that is free again and again while requests
\* sleep is eventually given to one of them, which one is not said (strong
\* fairness of the wake-up as a whole, none per sleeper).  Whether a
\* caller ever lets go of a Guard is the caller's business, no fairness.
FairSpec ==
    /\ Init
    /\ [][FairNext]_vars
    /\ \A t \in Threads :
          /\ WF_vars(lock_request(t, NoFault))
          /\ WF_vars(try_lock_request(t, NoFault))
          /\ WF_vars(\E fault \in Faults : drop(t, fault))
          /\ WF_vars(close(t))
    /\ SF_vars(WakeUp)

\* The threads whose lock call sleeps in its request.
Waiters == {t \in Threads : pc[t] = "lock_wait"}

\* Every Guard that is acquired is eventually dropped.  At most one Guard
\* on a file is in a caller's hands at a time, so this is: whenever a
\* caller has a Guard on the file, later no caller has one.
GuardsDropped ==
    \A f \in Files : (GuardsOn(f) # {}) ~> (GuardsOn(f) = {})

DroppedHolds(t) == holder[open[cur[t]]] = cur[t]

\* C18: the drop of a Guard ends with the lock released whether or not its
\* unlock request succeeds.  The drop starts with the handle holding the
\* lock; the unlock request comes first and leaves the lock free, or, when
\* it fails, with the handle; the close comes second, frees the lock that
\* the handle still holds, touches no lock that it does not hold, and
\* leaves the handle closed and not the holder.  In no state is a closed
\* handle the holder of a lock.
C18_DropReleases ==
    /\ [](\A f \in Files : holder[f] # NoHandle => open[holder[f]] = f)
    /\ [](\A t \in Threads : (DroppingGuard(t) /\ pc[t] = "drop") => DroppedHolds(t))
    /\ [][\A t \in Threads :
            (DroppingGuard(t) /\ pc'[t] # pc[t]) =>
                LET h == cur[t]
                    f == open[h]
                IN  /\ \A g \in Files \ {f} : holder'[g] = holder[g]
                    /\ pc[t] = "drop" =>
                          /\ pc'[t] = "close"
                          /\ open'[h] = f
                          /\ holder'[f] \in {NoHandle, h}
                    /\ pc[t] = "close" =>
                          /\ pc'[t] = "idle"
                          /\ open'[h] = NoPath
                          /\ holder'[f] # h
                          /\ DroppedHolds(t) => holder'[f] = NoHandle
                          /\ ~DroppedHolds(t) => holder'[f] = holder[f]]_vars

\* The unlock request of a drop failed, so the handle being dropped still
\* holds the lock when the drop comes to close it, while the lock call of
\* another thread sleeps on that lock.
C18_Witness ==
    \E t \in Threads, u \in Threads :
        /\ u # t
        /\ DroppingGuard(t)
        /\ pc[t] = "close"
        /\ DroppedHolds(t)
        /\ pc[u] = "lock_wait"
        /\ open[cur[u]] = open[cur[t]]

====
